---- MODULE Spec2Model ----
(***************************************************************************)
(* Dual-representation synchronization engine of the editor core           *)
(* (apps/editor/src/editorCore.ts) with its SnapshotHistory.               *)
(*                                                                         *)
(* Representation.  A markdown string is the sequence of its lines, the    *)
(* value of md.split('\n'): the empty string is <<"">>, "p\n" is           *)
(* <<"p", "">>.  A structured tree (ProseMirror doc) is the sequence of    *)
(* its top-level blocks, a block being the sequence of its text lines.     *)
(* An optional value (T | null) is a sequence of length 0 or 1.            *)
(***************************************************************************)
EXTENDS Integers, Sequences, FiniteSets, TLC

\* ------------------------------------------------------------------ bounds
\* most top-level blocks a structured edit may leave in the tree
MaxBlocks == 2
\* most operations explored after construction
MaxSteps == 5
\* most snapshots pushed in the stand-alone SnapshotHistory specification
MaxPush == 4
\* operations per run when setMarkdown and reset are among them
MaxApiSteps == 4
\* operations per run when the expiry of timeouts is fair
MaxLiveSteps == 3

\* ------------------------------------------------------------- input sets
MARKDOWN == "markdown"
WYSIWYG == "wysiwyg"
Modes == {MARKDOWN, WYSIWYG}

\* blocks the user can create in the structured surface: a one-line and a
\* two-line paragraph
BlockVals == {<<"p">>, <<"q", "q">>}

\* texts the user can type in the text view (and initial values): empty,
\* one block with a trailing newline, three blocks
TextInputs ==
  { <<"">>,
    <<"p", "">>,
    <<"p", "", "p", "", "p">> }

Null == <<>>
Some(x) == <<x>>

\* a const binding: F applied to the value of v, computed once
Bind(v, F(_)) == CHOOSE y \in {F(x) : x \in {v}} : TRUE

Max2(a, b) == IF a >= b THEN a ELSE b
Min2(a, b) == IF a <= b THEN a ELSE b

\* ------------------------------------------------------- string utilities
\* md.split('\n') on the line representation
SplitNewline(md) == md

\* lines.join('\n'): no line and one empty line both give the empty string
JoinNewline(lines) == IF lines = <<>> THEN <<"">> ELSE lines

\* editorCore.splitLines: '' has no line at all
splitLines(text) == IF text = <<"">> THEN <<>> ELSE SplitNewline(text)

\* Array.prototype.splice(start, deleteCount, ...items), with its clamping
Splice(lines, start, deleteCount, items) ==
  LET len == Len(lines)
      actualStart == IF start < 0 THEN Max2(len + start, 0) ELSE Min2(start, len)
      actualDelete == Min2(Max2(deleteCount, 0), len - actualStart)
  IN  SubSeq(lines, 1, actualStart) \o items
        \o SubSeq(lines, actualStart + actualDelete + 1, len)

\* Array.prototype.sort by a numeric key (stable): seq of [key, val]
RECURSIVE InsertKeyed(_, _)
InsertKeyed(sorted, x) ==
  IF sorted = <<>> THEN <<x>>
  ELSE IF sorted[Len(sorted)].key <= x.key THEN Append(sorted, x)
  ELSE Append(InsertKeyed(SubSeq(sorted, 1, Len(sorted) - 1), x), sorted[Len(sorted)])

RECURSIVE SortKeyed(_)
SortKeyed(seq) ==
  IF seq = <<>> THEN <<>>
  ELSE InsertKeyed(SortKeyed(SubSeq(seq, 1, Len(seq) - 1)), seq[Len(seq)])

\* --------------------------------------------- parser and convertor (spec)
\* parse(text) -> positioned tree: the top-level blocks are the maximal runs
\* of non-blank lines, each with its 1-based inclusive line range
RECURSIVE ScanBlocks(_, _, _, _)
ScanBlocks(lines, i, start, acc) ==
  LET closed == IF start = 0 THEN acc
                ELSE Append(acc, [startLine |-> start, endLine |-> i - 1,
                                  lines |-> SubSeq(lines, start, i - 1)])
  IN  IF i > Len(lines) THEN closed
      ELSE IF lines[i] = "" THEN ScanBlocks(lines, i + 1, 0, closed)
      ELSE ScanBlocks(lines, i + 1, IF start = 0 THEN i ELSE start, acc)

createToastMark(markdown) == ScanBlocks(SplitNewline(markdown), 1, 0, <<>>)

getMdStartLine(node) == node.startLine
getMdEndLine(node) == node.endLine

\* convertor.toWysiwygModel: one structured block per parsed block
toWysiwygModel(root) == [k \in 1..Len(root) |-> root[k].lines]

\* convertor.toMarkdownText: the blocks separated by one blank line, no
\* trailing newline; the empty tree gives the empty string
RECURSIVE JoinBlocks(_)
JoinBlocks(doc) ==
  IF doc = <<>> THEN <<>>
  ELSE IF Len(doc) = 1 THEN doc[1]
  ELSE doc[1] \o <<"">> \o JoinBlocks(Tail(doc))

toMarkdownText(doc) == JoinNewline(JoinBlocks(doc))

\* ------------------------------------------------------- SnapshotHistory
\* a history is [undoStack, redoStack]; undo and redo return the new history
\* and the snapshot (or null) handed to the caller
\* mutant: push keeps the redo stack
HistPushKeepRedo(h, snapshot) ==
  [undoStack |-> Append(h.undoStack, snapshot), redoStack |-> h.redoStack]

HistPush(h, snapshot) ==
  [undoStack |-> Append(h.undoStack, snapshot), redoStack |-> <<>>]

\* mutant: the floor entry counts as undoable
HistCanUndoFloor(h) == Len(h.undoStack) > 0

HistCanUndo(h) == Len(h.undoStack) > 1

HistCanRedo(h) == Len(h.redoStack) > 0

\* mutant: undo drops the snapshot it popped
HistUndoDrop(h) ==
  IF ~(Len(h.undoStack) > 1) THEN [h |-> h, ret |-> Null]
  ELSE LET rest == SubSeq(h.undoStack, 1, Len(h.undoStack) - 1)
       IN  [h |-> [undoStack |-> rest, redoStack |-> h.redoStack],
            ret |-> Some(rest[Len(rest)])]

\* mutant: undo hands back the snapshot it popped
HistUndoReturnPopped(h) ==
  IF ~(Len(h.undoStack) > 1) THEN [h |-> h, ret |-> Null]
  ELSE LET current == h.undoStack[Len(h.undoStack)]
           rest == SubSeq(h.undoStack, 1, Len(h.undoStack) - 1)
       IN  [h |-> [undoStack |-> rest, redoStack |-> Append(h.redoStack, current)],
            ret |-> Some(current)]

HistUndo(h) ==
  IF ~HistCanUndo(h) THEN [h |-> h, ret |-> Null]
  ELSE LET current == h.undoStack[Len(h.undoStack)]
           rest == SubSeq(h.undoStack, 1, Len(h.undoStack) - 1)
       IN  [h |-> [undoStack |-> rest, redoStack |-> Append(h.redoStack, current)],
            ret |-> IF rest = <<>> THEN Null ELSE Some(rest[Len(rest)])]

\* mutant: redo hands the snapshot back without moving it
HistRedoKeep(h) ==
  IF h.redoStack = <<>> THEN [h |-> h, ret |-> Null]
  ELSE [h |-> h, ret |-> Some(h.redoStack[Len(h.redoStack)])]

HistRedo(h) ==
  IF ~HistCanRedo(h) THEN [h |-> h, ret |-> Null]
  ELSE LET next == h.redoStack[Len(h.redoStack)]
       IN  [h |-> [undoStack |-> Append(h.undoStack, next),
                   redoStack |-> SubSeq(h.redoStack, 1, Len(h.redoStack) - 1)],
            ret |-> Some(next)]

HistSize(h) == [undo |-> Len(h.undoStack), redo |-> Len(h.redoStack)]

\* ------------------------------------------------------ edit range tracker
normalizeBlockRange(range) ==
  [startIndex |-> Min2(range.startIndex, range.endIndex),
   endIndex |-> Max2(range.startIndex, range.endIndex)]

\* mutant: ranges that only touch are not merged
rangesOverlapOnly(a, b) ==
  a.startIndex <= b.endIndex /\ b.startIndex <= a.endIndex

rangesOverlapOrTouch(a, b) ==
  a.startIndex <= b.endIndex + 1 /\ b.startIndex <= a.endIndex + 1

\* mutant: the merged range is the pending range alone
mergeLineRangeKeepExisting(a, b) == a

mergeLineRange(a, b) ==
  [startIndex |-> Min2(a.startIndex, b.startIndex),
   endIndex |-> Max2(a.endIndex, b.endIndex)]

\* the forEach of addWwEditRange: st is [next, merged]
RECURSIVE MergeInto(_, _, _)
MergeInto(pending, k, st) ==
  IF k > Len(pending) THEN st
  ELSE LET existing == pending[k]
       IN  IF rangesOverlapOrTouch(existing.oldRange, st.next.oldRange)
              \/ rangesOverlapOrTouch(existing.newRange, st.next.newRange)
           THEN MergeInto(pending, k + 1,
                  [next |-> [oldRange |-> mergeLineRange(existing.oldRange, st.next.oldRange),
                             newRange |-> mergeLineRange(existing.newRange, st.next.newRange)],
                   merged |-> st.merged])
           ELSE MergeInto(pending, k + 1,
                  [next |-> st.next, merged |-> Append(st.merged, existing)])

addWwEditRange(pending, range) ==
  LET first == [oldRange |-> normalizeBlockRange(range.oldRange),
                newRange |-> normalizeBlockRange(range.newRange)]
      st == MergeInto(pending, 1, [next |-> first, merged |-> <<>>])
  IN  Append(st.merged, st.next)

\* --------------------------------------------------- incremental serializer
\* mutant: the walk stops at the first block whatever the index
getMdBlockByIndexFirst(root, index) ==
  IF root = <<>> THEN Null ELSE Some(root[1])

\* walks the sibling chain from firstChild; index <= 0 stops at the first
getMdBlockByIndex(root, index) ==
  IF root = <<>> THEN Null
  ELSE IF index <= 0 THEN Some(root[1])
  ELSE IF index + 1 <= Len(root) THEN Some(root[index + 1])
  ELSE Null

\* mutant: the end line taken from the end block's first line
getBlockLineRangeEndAtStartLine(range, root) ==
  LET startNode == getMdBlockByIndex(root, range.startIndex)
      endNode == getMdBlockByIndex(root, range.endIndex)
  IN  IF startNode = Null \/ endNode = Null THEN Null
      ELSE LET resolvedStartLine == getMdStartLine(startNode[1])
               resolvedEndLine == getMdStartLine(endNode[1])
           IN  Some([startLine |-> resolvedStartLine,
                     endLine |-> Max2(resolvedEndLine, resolvedStartLine)])

getBlockLineRangeForIndexRange(range, root) ==
  LET startNode == getMdBlockByIndex(root, range.startIndex)
      endNode == getMdBlockByIndex(root, range.endIndex)
  IN  IF startNode = Null \/ endNode = Null THEN Null
      ELSE LET resolvedStartLine == getMdStartLine(startNode[1])
               resolvedEndLine == getMdEndLine(endNode[1])
           IN  Some([startLine |-> resolvedStartLine,
                     endLine |-> Max2(resolvedEndLine, resolvedStartLine)])

\* text | null; the range is a normalized pending range
serializeWwBlockRange(doc, range) ==
  IF Len(doc) = 0 THEN Some(<<"">>)
  ELSE IF range.startIndex < 0 \/ range.endIndex >= Len(doc) THEN Null
  ELSE LET lastIndex == Max2(range.endIndex, range.startIndex)
           nodes == SubSeq(doc, range.startIndex + 1, lastIndex + 1)
       IN  IF nodes = <<>> THEN Some(<<"">>) ELSE Some(toMarkdownText(nodes))

\* the forEach of applyMdPatches: st is [lines, lineOffset]
RECURSIVE ApplyOrdered(_, _, _)
ApplyOrdered(ordered, k, st) ==
  IF k > Len(ordered) THEN st
  ELSE LET patch == ordered[k]
           startIndex == patch.range.startLine - 1 + st.lineOffset
           endIndex == patch.range.endLine - 1 + st.lineOffset
           replacementLines == splitLines(patch.text)
       IN  ApplyOrdered(ordered, k + 1,
             [lines |-> Splice(st.lines, startIndex, endIndex - startIndex + 1,
                               replacementLines),
              lineOffset |-> st.lineOffset + Len(replacementLines)
                               - (endIndex - startIndex + 1)])

\* patches.slice().sort(...) by range.startLine
SortByStartLine(patches) ==
  LET keyed == [k \in 1..Len(patches) |->
                  [key |-> patches[k].range.startLine, val |-> patches[k]]]
      sorted == SortKeyed(keyed)
  IN  [k \in 1..Len(sorted) |-> sorted[k].val]

\* mutant: the forEach without the running line offset
RECURSIVE ApplyOrderedNoOffset(_, _, _)
ApplyOrderedNoOffset(ordered, k, lines) ==
  IF k > Len(ordered) THEN lines
  ELSE ApplyOrderedNoOffset(ordered, k + 1,
         Splice(lines, ordered[k].range.startLine - 1,
                ordered[k].range.endLine - ordered[k].range.startLine + 1,
                splitLines(ordered[k].text)))

ApplySortedNoOffset(md, ordered) ==
  JoinNewline(ApplyOrderedNoOffset(ordered, 1, SplitNewline(md)))

\* the body of applyMdPatches once the patches are ordered
ApplySorted(md, ordered) ==
  JoinNewline(ApplyOrdered(ordered, 1,
                           [lines |-> SplitNewline(md), lineOffset |-> 0]).lines)

applyMdPatches(md, patches) ==
  Bind(patches, LAMBDA given :
    Bind(SortByStartLine(given), LAMBDA ordered : ApplySorted(md, ordered)))

\* ----------------------------------------------------------------- state
VARIABLES
  mode,              \* the live view: MARKDOWN (text) or WYSIWYG (structured)
  canonicalMd,       \* canonical markdown
  wwDirty,           \* structured edits not yet serialized
  wwSerializeTimer,  \* TRUE while the field holds a timer handle
  timeouts,          \* the live timeouts set by scheduleWwSerialize
  pendingWwRanges,   \* the edit range tracker's ranges
  wwBaselineDoc,     \* baseline structured tree, or null
  wwDoc,             \* the structured surface's tree (wwEditor.getModel())
  mdText,            \* the text view's content (mdEditor.getMarkdown())
  undoStack,         \* SnapshotHistory.undoStack
  redoStack,         \* SnapshotHistory.redoStack
  steps,             \* history: the number of operations so far
  batch,             \* history: the structured edits since the last operation
  trace,             \* history: the pushes and undos made on a bare SnapshotHistory
  last               \* history: the last operation, what it returned and did

progVars == <<mode, canonicalMd, wwDirty, wwSerializeTimer, timeouts, pendingWwRanges,
              wwBaselineDoc, wwDoc, mdText, undoStack, redoStack>>
vars == <<mode, canonicalMd, wwDirty, wwSerializeTimer, timeouts, pendingWwRanges,
          wwBaselineDoc, wwDoc, mdText, undoStack, redoStack, steps, batch, trace,
          last>>

\* the coordinator's fields as one record; flushPath and pushed trace what
\* the handler running on it did
Cur ==
  [mode |-> mode, canonicalMd |-> canonicalMd, wwDirty |-> wwDirty,
   wwSerializeTimer |-> wwSerializeTimer, timeouts |-> timeouts,
   cleared |-> 0, started |-> 0, pendingWwRanges |-> pendingWwRanges,
   wwBaselineDoc |-> wwBaselineDoc, wwDoc |-> wwDoc, mdText |-> mdText,
   undoStack |-> undoStack, redoStack |-> redoStack,
   flushPath |-> "none", pushed |-> 0]

NoBatch == [edits |-> 0, inSync |-> FALSE, ranged |-> TRUE]
NoTrace == [pushed |-> <<>>, undos |-> 0, clean |-> TRUE]
NoMid == [undo |-> 0, redo |-> 0]
NoRound == [stage |-> 0, md |-> <<>>, undoStack |-> <<>>, redoStack |-> <<>>,
            set |-> <<>>]

isWysiwygMode(s) == s.mode = WYSIWYG
isMarkdownMode(s) == s.mode = MARKDOWN

\* mutant: the baseline is left as it was
setWwBaselineKeep(s) == s

setWwBaseline(s) ==
  IF ~isWysiwygMode(s) THEN s
  ELSE [s EXCEPT !.wwBaselineDoc = Some(s.wwDoc)]

createSnapshot(s, md) == [md |-> md, mode |-> s.mode]

pushSnapshot(s, md) ==
  LET h == HistPush([undoStack |-> s.undoStack, redoStack |-> s.redoStack],
                    createSnapshot(s, md))
  IN  [s EXCEPT !.undoStack = h.undoStack, !.redoStack = h.redoStack,
                !.pushed = @ + 1]

\* if (this.wwSerializeTimer) clearTimeout(this.wwSerializeTimer)
clearTimeout(s) ==
  IF s.wwSerializeTimer
  THEN [s EXCEPT !.timeouts = @ - 1, !.cleared = @ + 1]
  ELSE s

\* window.setTimeout(...): one more live timeout, its handle in the field
setTimeout(s) ==
  [s EXCEPT !.timeouts = @ + 1, !.started = @ + 1, !.wwSerializeTimer = TRUE]

clearPendingWwEdits(s) ==
  [clearTimeout(s) EXCEPT !.wwSerializeTimer = FALSE, !.pendingWwRanges = <<>>]

\* mutant: the previous timeout is left running
scheduleWwSerializeNoClear(s) == setTimeout(s)

scheduleWwSerialize(s) == setTimeout(clearTimeout(s))

\* the timeout's callback, up to its call of flushSerializeAndMaybePush
timeoutExpired(s) == [s EXCEPT !.timeouts = @ - 1, !.wwSerializeTimer = FALSE]

\* the sorted pending ranges mapped to (patchRange | null, text | null)
MapRanges(s, sorted, root) ==
  [k \in 1..Len(sorted) |->
     [patchRange |-> getBlockLineRangeForIndexRange(sorted[k].val.oldRange, root),
      text |-> serializeWwBlockRange(s.wwDoc, sorted[k].val.newRange)]]

\* the pending ranges sorted by oldRange.startIndex, then mapped
MappedRanges(s) ==
  Bind(SortKeyed([k \in 1..Len(s.pendingWwRanges) |->
                    [key |-> s.pendingWwRanges[k].oldRange.startIndex,
                     val |-> s.pendingWwRanges[k]]]),
       LAMBDA sorted :
         Bind(createToastMark(s.canonicalMd),
              LAMBDA root : MapRanges(s, sorted, root)))

\* mutant: a null text does not force the full serialization
ShouldSerializeAllOnRangeOnly(mapped) ==
  \E k \in 1..Len(mapped) : mapped[k].patchRange = Null

ShouldSerializeAll(mapped) ==
  \E k \in 1..Len(mapped) : mapped[k].patchRange = Null \/ mapped[k].text = Null

PatchesOf(mapped) ==
  LET kept == SelectSeq(mapped, LAMBDA m : m.patchRange # Null)
  IN  [k \in 1..Len(kept) |->
         [range |-> kept[k].patchRange[1],
          text |-> IF kept[k].text = Null THEN <<"">> ELSE kept[k].text[1]]]

\* the tail of flushSerialize: full serialization or patches
SerializeMapped(s, mapped) ==
  IF ShouldSerializeAll(mapped) THEN
    [md |-> toMarkdownText(s.wwDoc),
     s |-> [s EXCEPT !.pendingWwRanges = <<>>, !.flushPath = "full"]]
  ELSE
    [md |-> applyMdPatches(s.canonicalMd, PatchesOf(mapped)),
     s |-> [s EXCEPT !.pendingWwRanges = <<>>, !.flushPath = "patch"]]

\* mutant: with no pending range the whole tree is serialized
flushSerializeNoEarlyReturn(s) ==
  IF s.pendingWwRanges = <<>> THEN
    [md |-> toMarkdownText(s.wwDoc), s |-> [s EXCEPT !.flushPath = "full"]]
  ELSE Bind(MappedRanges(s), LAMBDA mapped : SerializeMapped(s, mapped))

\* returns [md, s]: the next markdown and the coordinator after the call
flushSerialize(s) ==
  IF s.pendingWwRanges = <<>> THEN
    [md |-> s.canonicalMd, s |-> [s EXCEPT !.flushPath = "empty"]]
  ELSE IF s.wwBaselineDoc # Null /\ s.wwDoc = s.wwBaselineDoc[1] THEN
    [md |-> s.canonicalMd,
     s |-> [clearPendingWwEdits(s) EXCEPT !.wwDirty = FALSE, !.flushPath = "noop"]]
  ELSE Bind(MappedRanges(s), LAMBDA mapped : SerializeMapped(s, mapped))

\* mutant: the snapshot is pushed whether or not the text changed
CommitAlways(r) ==
  setWwBaseline([pushSnapshot([r.s EXCEPT !.canonicalMd = r.md], r.md)
                   EXCEPT !.wwDirty = FALSE])

\* mutant: the changed text is committed and no snapshot is pushed
CommitWithoutPush(r) ==
  setWwBaseline([r.s EXCEPT !.canonicalMd = r.md, !.wwDirty = FALSE])

\* the tail of flushSerializeAndMaybePush: r is flushSerialize's [md, s]
CommitFlushed(r) ==
  setWwBaseline([(IF r.md # r.s.canonicalMd
                  THEN pushSnapshot([r.s EXCEPT !.canonicalMd = r.md], r.md)
                  ELSE r.s)
                   EXCEPT !.wwDirty = FALSE])

flushSerializeAndMaybePush(s) ==
  Bind(flushSerialize(s), LAMBDA r : CommitFlushed(r))

\* if (this.wwDirty) this.flushSerializeAndMaybePush()
FlushIfDirty(s1) == IF s1.wwDirty THEN flushSerializeAndMaybePush(s1) ELSE s1

\* mutant: the forced flush leaves the live timeout running
flushPendingWwSerializeKeepTimer(s) == FlushIfDirty(s)

flushPendingWwSerialize(s) ==
  FlushIfDirty([clearTimeout(s) EXCEPT !.wwSerializeTimer = FALSE])

\* mutant: the listener takes the text and pushes no snapshot
onMdChangeNoPush(s, suppressSnapshot) ==
  [s EXCEPT !.canonicalMd = s.mdText, !.wwDirty = FALSE]

\* the 'change' listener, for editorType = 'markdown'
onMdChange(s, suppressSnapshot) ==
  LET s1 == [s EXCEPT !.canonicalMd = s.mdText, !.wwDirty = FALSE]
  IN  IF ~suppressSnapshot THEN pushSnapshot(s1, s1.canonicalMd) ELSE s1

\* mutant: the listener records the edit and sets no timeout
onWwUserEditNoSchedule(s, range) ==
  IF range # Null
  THEN [s EXCEPT !.wwDirty = TRUE,
                 !.pendingWwRanges = addWwEditRange(@, range[1])]
  ELSE [s EXCEPT !.wwDirty = TRUE]

\* the 'wwUserEdit' listener; range is an EditRange or null
onWwUserEdit(s, range) ==
  LET s1 == [s EXCEPT !.wwDirty = TRUE]
      s2 == IF range # Null
            THEN [s1 EXCEPT !.pendingWwRanges = addWwEditRange(@, range[1])]
            ELSE s1
  IN  scheduleWwSerialize(s2)

\* mdEditor.setMarkdown (text view): stores the text and emits 'change'
mdEditorSetMarkdown(s, md, suppressSnapshot) ==
  onMdChange([s EXCEPT !.mdText = md], suppressSnapshot)

\* wwEditor.setModel with programmatic = true: no wwUserEdit is emitted
wwEditorSetModelProgrammatic(s, doc) == [s EXCEPT !.wwDoc = doc]

\* mutant: the replacement is not suppressed and pushes a snapshot
setMarkdownUnsuppressed(s, md) ==
  LET s1 == mdEditorSetMarkdown(s, md, FALSE)
  IN  IF isWysiwygMode(s1)
      THEN wwEditorSetModelProgrammatic(s1,
             toWysiwygModel(createToastMark(s1.mdText)))
      ELSE s1

\* setMarkdown(md, false, false, true) inside runProgrammatic
setMarkdownProgrammatic(s, md) ==
  LET s1 == mdEditorSetMarkdown(s, md, TRUE)
  IN  IF isWysiwygMode(s1)
      THEN wwEditorSetModelProgrammatic(s1,
             toWysiwygModel(createToastMark(s1.mdText)))
      ELSE s1

applyProgrammatic(s, md) ==
  LET s1 == clearPendingWwEdits(s)
      s2 == [s1 EXCEPT !.canonicalMd = md, !.wwDirty = FALSE]
  IN  setWwBaseline(setMarkdownProgrammatic(s2, md))

\* mutant: the snapshot's mode becomes the current mode
ApplyMovedSwitching(s1, u) ==
  [s |-> IF u.ret # Null
         THEN applyProgrammatic([s1 EXCEPT !.undoStack = u.h.undoStack,
                                           !.redoStack = u.h.redoStack,
                                           !.mode = u.ret[1].mode],
                                u.ret[1].md)
         ELSE [s1 EXCEPT !.undoStack = u.h.undoStack, !.redoStack = u.h.redoStack],
   ret |-> u.ret,
   mid |-> [undo |-> Len(s1.undoStack), redo |-> Len(s1.redoStack)]]

\* returns [s, ret, mid]: mid is the history's size after the forced flush
ApplyMoved(s1, u) ==
  [s |-> IF u.ret # Null
         THEN applyProgrammatic([s1 EXCEPT !.undoStack = u.h.undoStack,
                                           !.redoStack = u.h.redoStack],
                                u.ret[1].md)
         ELSE [s1 EXCEPT !.undoStack = u.h.undoStack, !.redoStack = u.h.redoStack],
   ret |-> u.ret,
   mid |-> [undo |-> Len(s1.undoStack), redo |-> Len(s1.redoStack)]]

\* mutant: the snapshot applied is the one undo() moved to the redo stack
UndoFlushedPopped(s1) ==
  ApplyMoved(s1, HistUndoReturnPopped([undoStack |-> s1.undoStack,
                                       redoStack |-> s1.redoStack]))

\* snapshotHistory.undo() on the flushed coordinator, then applyProgrammatic
UndoFlushed(s1) ==
  ApplyMoved(s1, HistUndo([undoStack |-> s1.undoStack, redoStack |-> s1.redoStack]))

\* snapshotHistory.redo() on the flushed coordinator, then applyProgrammatic
RedoFlushed(s1) ==
  ApplyMoved(s1, HistRedo([undoStack |-> s1.undoStack, redoStack |-> s1.redoStack]))

undoBySnapshot(s) == UndoFlushed(flushPendingWwSerialize(s))

redoBySnapshot(s) == RedoFlushed(flushPendingWwSerialize(s))

\* return this.canonicalMd
ReadCanonical(s1) == [s |-> s1, ret |-> s1.canonicalMd]

\* returns [s, ret]
getMarkdown(s) ==
  IF isMarkdownMode(s) THEN ReadCanonical(s)
  ELSE ReadCanonical(flushPendingWwSerialize(s))

\* wwEditor.setModel with programmatic = false: the transaction emits
\* 'wwUserEdit' (range is what the event carries, or null)
wwEditorSetModel(s, doc, range) == onWwUserEdit([s EXCEPT !.wwDoc = doc], range)

\* the structured half of setMarkdown: s1 is the coordinator after
\* mdEditor.setMarkdown
SetModelFromText(s1, range) ==
  IF isWysiwygMode(s1)
  THEN wwEditorSetModel(s1, toWysiwygModel(createToastMark(s1.mdText)), range)
  ELSE s1

\* the public setMarkdown(md): addToHistory = true, programmatic = false
setMarkdown(s, md, range) == SetModelFromText(mdEditorSetMarkdown(s, md, FALSE), range)

\* the structured half of setMarkdown when programmatic = true
SetModelFromTextFlagged(s1) ==
  IF isWysiwygMode(s1)
  THEN wwEditorSetModelProgrammatic(s1, toWysiwygModel(createToastMark(s1.mdText)))
  ELSE s1

\* the public setMarkdown(md, cursorToEnd, addToHistory, true) called by the
\* application: the flag reaches the two views; suppressSnapshot is set by
\* runProgrammatic only, and stays false
setMarkdownFlagged(s, md) ==
  SetModelFromTextFlagged(mdEditorSetMarkdown(s, md, FALSE))

\* the public setHTML(html, cursorToEnd, addToHistory, programmatic): wwNode
\* is the tree the DOM parser makes of html
setHTML(s, wwNode, range, programmatic) ==
  IF isMarkdownMode(s) THEN mdEditorSetMarkdown(s, toMarkdownText(wwNode), FALSE)
  ELSE IF programmatic THEN wwEditorSetModelProgrammatic(s, wwNode)
  ELSE wwEditorSetModel(s, wwNode, range)

\* mutant: the two views are emptied outside runProgrammatic
resetUnsuppressed(s) ==
  [clearPendingWwEdits(
     mdEditorSetMarkdown(wwEditorSetModelProgrammatic(s, <<>>), <<"">>, FALSE))
     EXCEPT !.canonicalMd = <<"">>, !.wwDirty = FALSE, !.wwBaselineDoc = Null]

reset(s) ==
  [clearPendingWwEdits(
     mdEditorSetMarkdown(wwEditorSetModelProgrammatic(s, <<>>), <<"">>, TRUE))
     EXCEPT !.canonicalMd = <<"">>, !.wwDirty = FALSE, !.wwBaselineDoc = Null]

\* mutant: the throwaway tree is set as a user's replacement would be
getHTMLAsUserEdit(s) ==
  IF isMarkdownMode(s)
  THEN wwEditorSetModel(s, toWysiwygModel(createToastMark(s.mdText)), Null)
  ELSE s

\* getHTML(): in text mode the structured surface is given the tree of the
\* text view's parser, programmatic = true; the html is read off the surface
getHTML(s) ==
  IF isMarkdownMode(s)
  THEN wwEditorSetModelProgrammatic(s, toWysiwygModel(createToastMark(s.mdText)))
  ELSE s

\* mdEditor.setMarkdown(this.canonicalMd) inside runProgrammatic
WriteTextView(s1) == mdEditorSetMarkdown(s1, s1.canonicalMd, TRUE)

\* mutant: switching to structured replaces the tree as a user edit would
changeModeAsUserEdit(s, next) ==
  IF s.mode = next THEN s
  ELSE
    LET s0 == [s EXCEPT !.mode = next]
    IN  IF isWysiwygMode(s0) THEN
          LET wwNode == toWysiwygModel(createToastMark(s0.mdText))
              s1 == clearPendingWwEdits([s0 EXCEPT !.wwDirty = FALSE])
          IN  setWwBaseline(wwEditorSetModel(s1, wwNode, Null))
        ELSE
          WriteTextView(IF s0.wwDirty
                        THEN clearPendingWwEdits(flushPendingWwSerialize(s0))
                        ELSE s0)

\* mutant: switching to text serializes the tree again
changeModeReserialize(s, next) ==
  IF s.mode = next THEN s
  ELSE
    LET s0 == [s EXCEPT !.mode = next]
    IN  IF isWysiwygMode(s0) THEN
          LET wwNode == toWysiwygModel(createToastMark(s0.mdText))
              s1 == clearPendingWwEdits([s0 EXCEPT !.wwDirty = FALSE])
          IN  setWwBaseline(wwEditorSetModelProgrammatic(s1, wwNode))
        ELSE
          WriteTextView(clearPendingWwEdits(
            [s0 EXCEPT !.canonicalMd = toMarkdownText(s0.wwDoc),
                       !.wwDirty = FALSE]))

changeMode(s, next) ==
  IF s.mode = next THEN s
  ELSE
    LET s0 == [s EXCEPT !.mode = next]
    IN  IF isWysiwygMode(s0) THEN
          LET wwNode == toWysiwygModel(createToastMark(s0.mdText))
              s1 == clearPendingWwEdits([s0 EXCEPT !.wwDirty = FALSE])
          IN  setWwBaseline(wwEditorSetModelProgrammatic(s1, wwNode))
        ELSE
          WriteTextView(IF s0.wwDirty
                        THEN clearPendingWwEdits(flushPendingWwSerialize(s0))
                        ELSE s0)

\* --------------------------------------------- structured surface (spec)
\* the user replaces the top-level blocks i..j (0-based, inclusive) by new
ReplaceBlocks(doc, i, j, new) ==
  SubSeq(doc, 1, i) \o new \o SubSeq(doc, j + 2, Len(doc))

\* the EditRange of that edit: oldRange locates the replaced blocks in the
\* pre-edit tree, newRange the replacing blocks in the post-edit tree
EditRangeOf(i, j, new) ==
  [oldRange |-> [startIndex |-> i, endIndex |-> j],
   newRange |-> [startIndex |-> i, endIndex |-> i + Len(new) - 1]]

\* the trees setHTML is given: empty, one block, two blocks
HtmlTrees == {<<>>, <<<<"p">>>>, <<<<"q", "q">>, <<"p">>>>}

\* one or two new blocks: the surface's tree keeps at least one block once
\* it has one (removing a block is replacing it and a neighbour by the
\* neighbour)
NewBlockSeqs ==
  {<<a>> : a \in BlockVals} \cup {<<a, b>> : a \in BlockVals, b \in BlockVals}

\* ------------------------------------------------------------------- Init
\* the constructor: initialEditType, initialValue; the first snapshot pushed
Init ==
  \E m \in Modes, initialValue \in TextInputs :
    /\ mode = m
    /\ canonicalMd = initialValue
    /\ wwDirty = FALSE
    /\ wwSerializeTimer = FALSE
    /\ timeouts = 0
    /\ pendingWwRanges = <<>>
    /\ wwBaselineDoc = Null
    /\ wwDoc = IF m = WYSIWYG THEN toWysiwygModel(createToastMark(initialValue)) ELSE <<>>
    /\ mdText = initialValue
    /\ undoStack = <<[md |-> initialValue, mode |-> m]>>
    /\ redoStack = <<>>
    /\ steps = 0
    /\ batch = NoBatch
    /\ trace = NoRound
    /\ last = [op |-> "init", flushPath |-> "none", pushed |-> 0,
               cleared |-> 0, started |-> 0, retMd |-> Null,
               retSnap |-> Null, mid |-> [undo |-> 0, redo |-> 0], batch |-> NoBatch]

\* history of the round trip setMarkdown(M) in text mode, changeMode,
\* changeMode, getMarkdown(): the stage reached, M and the stacks after
\* setMarkdown; any other operation ends it
RoundTrip(op, s) ==
  IF op = "setMarkdown" /\ s.mode = MARKDOWN
  THEN [stage |-> 1, md |-> s.mdText,
        undoStack |-> s.undoStack, redoStack |-> s.redoStack, set |-> <<>>]
  ELSE IF op = "changeMode" /\ trace.stage \in {1, 2}
  THEN [trace EXCEPT !.stage = @ + 1]
  ELSE IF op = "getMarkdown" /\ trace.stage = 3
  THEN [trace EXCEPT !.stage = 4]
  ELSE NoRound

\* history: the text the last setMarkdown or setHTML set, kept while only
\* timeouts, reads and mode changes follow
ContentSet(op, s) ==
  IF op \in {"setMarkdown", "setMarkdownProgrammatic"} THEN Some(s.mdText)
  ELSE IF op \in {"setHTML", "setHTMLProgrammatic"}
  THEN Some(IF isMarkdownMode(s) THEN s.mdText ELSE toMarkdownText(s.wwDoc))
  ELSE IF op \in {"timer", "getMarkdown", "changeMode"} THEN trace.set
  ELSE Null

Install(s, op, retMd, retSnap, mid, nextBatch) ==
  /\ steps < MaxSteps
  /\ steps' = steps + 1
  /\ mode' = s.mode
  /\ canonicalMd' = s.canonicalMd
  /\ wwDirty' = s.wwDirty
  /\ wwSerializeTimer' = s.wwSerializeTimer
  /\ timeouts' = s.timeouts
  /\ pendingWwRanges' = s.pendingWwRanges
  /\ wwBaselineDoc' = s.wwBaselineDoc
  /\ wwDoc' = s.wwDoc
  /\ mdText' = s.mdText
  /\ undoStack' = s.undoStack
  /\ redoStack' = s.redoStack
  /\ batch' = nextBatch
  /\ trace' = [RoundTrip(op, s) EXCEPT !.set = ContentSet(op, s)]
  /\ last' = [op |-> op, flushPath |-> s.flushPath, pushed |-> s.pushed,
              cleared |-> s.cleared, started |-> s.started,
              retMd |-> retMd, retSnap |-> retSnap, mid |-> mid, batch |-> batch]

\* ---------------------------------------------------------------- actions
\* the user types in the text view: the view emits 'change'
MdChange ==
  /\ mode = MARKDOWN
  /\ \E t \in TextInputs :
       /\ t # mdText
       /\ Install(mdEditorSetMarkdown(Cur, t, FALSE), "mdChange", Null, Null, NoMid, NoBatch)

\* the user edits the structured tree: the surface emits 'wwUserEdit', with
\* the edit's range or with none
WwUserEdit ==
  /\ mode = WYSIWYG
  /\ \E i \in 0..Max2(Len(wwDoc) - 1, 0), new \in NewBlockSeqs, ranged \in BOOLEAN :
     \E j \in i..Max2(Len(wwDoc) - 1, 0) :
       LET doc2 == ReplaceBlocks(wwDoc, i, j, new)
           range == IF ranged THEN Some(EditRangeOf(i, j, new)) ELSE Null
           nextBatch ==
             IF batch.edits = 0
             THEN [edits |-> 1,
                   inSync |-> /\ canonicalMd = toMarkdownText(wwDoc)
                              /\ ~wwDirty /\ pendingWwRanges = <<>>,
                   ranged |-> ranged]
             ELSE [edits |-> 2, inSync |-> batch.inSync,
                   ranged |-> batch.ranged /\ ranged]
       IN  /\ doc2 # wwDoc
           /\ Len(doc2) <= MaxBlocks
           /\ Install(onWwUserEdit([Cur EXCEPT !.wwDoc = doc2], range),
                      "wwUserEdit", Null, Null, NoMid, nextBatch)

\* the debounce timer expires
TimerFire ==
  /\ timeouts > 0
  /\ \E s \in {flushSerializeAndMaybePush(timeoutExpired(Cur))} :
       Install(s, "timer", Null, Null, NoMid, NoBatch)

\* installs the coordinator of r and records the text r returned
InstallRead(r) == Install(r.s, "getMarkdown", Some(r.ret), Null, NoMid, NoBatch)

\* installs the coordinator of r and records the snapshot r returned
InstallMoved(r, op) == Install(r.s, op, Null, r.ret, r.mid, NoBatch)

GetMarkdown == InstallRead(getMarkdown(Cur))

ChangeMode ==
  \E next \in Modes :
    /\ next # mode
    /\ Install(changeMode(Cur, next), "changeMode", Null, Null, NoMid, NoBatch)

\* the range a whole-document replacement reports
WholeDocRange(oldDoc, newDoc) ==
  [oldRange |-> [startIndex |-> 0, endIndex |-> Max2(Len(oldDoc) - 1, 0)],
   newRange |-> [startIndex |-> 0, endIndex |-> Max2(Len(newDoc) - 1, 0)]]

\* the application calls setMarkdown(t)
SetMarkdown ==
  \E t \in TextInputs, ranged \in BOOLEAN :
    /\ (mode = MARKDOWN => ranged)
    /\ Install(setMarkdown(Cur, t,
                  IF ranged
                  THEN Some(WholeDocRange(wwDoc, toWysiwygModel(createToastMark(t))))
                  ELSE Null),
               "setMarkdown", Null, Null, NoMid,
               IF mode = WYSIWYG
               THEN [edits |-> 2, inSync |-> FALSE, ranged |-> batch.ranged /\ ranged]
               ELSE NoBatch)

\* the application calls setMarkdown(t, cursorToEnd, addToHistory, true)
SetMarkdownProgrammatic ==
  \E t \in TextInputs :
    Install(setMarkdownFlagged(Cur, t), "setMarkdownProgrammatic",
            Null, Null, NoMid, NoBatch)

\* the application calls setHTML(html, cursorToEnd, addToHistory, programmatic)
SetHTML ==
  \E wwNode \in HtmlTrees, programmatic \in BOOLEAN, ranged \in BOOLEAN :
    /\ (mode = MARKDOWN \/ programmatic => ranged)
    /\ Install(setHTML(Cur, wwNode,
                       IF ranged THEN Some(WholeDocRange(wwDoc, wwNode)) ELSE Null,
                       programmatic),
               IF programmatic THEN "setHTMLProgrammatic" ELSE "setHTML",
               Null, Null, NoMid,
               IF mode = WYSIWYG /\ ~programmatic
               THEN [edits |-> 2, inSync |-> FALSE, ranged |-> batch.ranged /\ ranged]
               ELSE NoBatch)

\* the application calls reset()
Reset == Install(reset(Cur), "reset", Null, Null, NoMid, NoBatch)

\* the application calls getHTML()
GetHTML == Install(getHTML(Cur), "getHTML", Null, Null, NoMid, batch)

UndoBySnapshot == InstallMoved(undoBySnapshot(Cur), "undo")

RedoBySnapshot == InstallMoved(redoBySnapshot(Cur), "redo")

Next ==
  \/ MdChange
  \/ WwUserEdit
  \/ TimerFire
  \/ GetMarkdown
  \/ ChangeMode
  \/ UndoBySnapshot
  \/ RedoBySnapshot

Spec == Init /\ [][Next]_vars

\* the coordinator in a window that runs every timeout that stays live,
\* over shorter runs
NextLive ==
  \/ steps < MaxLiveSteps /\ MdChange
  \/ steps < MaxLiveSteps /\ WwUserEdit
  \/ steps < MaxLiveSteps /\ TimerFire
  \/ steps < MaxLiveSteps /\ GetMarkdown
  \/ steps < MaxLiveSteps /\ ChangeMode
  \/ steps < MaxLiveSteps /\ UndoBySnapshot
  \/ steps < MaxLiveSteps /\ RedoBySnapshot

SpecLive == Init /\ [][NextLive]_vars /\ WF_vars(steps < MaxLiveSteps /\ TimerFire)

\* the coordinator with the application's setMarkdown and reset calls as
\* well, over shorter runs
NextApi ==
  \/ steps < MaxApiSteps /\ MdChange
  \/ steps < MaxApiSteps /\ WwUserEdit
  \/ steps < MaxApiSteps /\ TimerFire
  \/ steps < MaxApiSteps /\ GetMarkdown
  \/ steps < MaxApiSteps /\ ChangeMode
  \/ steps < MaxApiSteps /\ UndoBySnapshot
  \/ steps < MaxApiSteps /\ RedoBySnapshot
  \/ steps < MaxApiSteps /\ SetMarkdown
  \/ steps < MaxApiSteps /\ Reset

SpecApi == Init /\ [][NextApi]_vars

\* the coordinator with the application's flagged replacements: setMarkdown
\* with programmatic = true, and setHTML with either flag
NextFlagged ==
  \/ steps < MaxApiSteps /\ MdChange
  \/ steps < MaxApiSteps /\ WwUserEdit
  \/ steps < MaxApiSteps /\ TimerFire
  \/ steps < MaxApiSteps /\ GetMarkdown
  \/ steps < MaxApiSteps /\ ChangeMode
  \/ steps < MaxApiSteps /\ UndoBySnapshot
  \/ steps < MaxApiSteps /\ RedoBySnapshot
  \/ steps < MaxApiSteps /\ SetMarkdownProgrammatic
  \/ steps < MaxApiSteps /\ SetHTML

SpecFlagged == Init /\ [][NextFlagged]_vars

\* the coordinator with the application's getHTML reads
NextRead ==
  \/ steps < MaxApiSteps /\ MdChange
  \/ steps < MaxApiSteps /\ WwUserEdit
  \/ steps < MaxApiSteps /\ TimerFire
  \/ steps < MaxApiSteps /\ GetMarkdown
  \/ steps < MaxApiSteps /\ ChangeMode
  \/ steps < MaxApiSteps /\ UndoBySnapshot
  \/ steps < MaxApiSteps /\ RedoBySnapshot
  \/ steps < MaxApiSteps /\ GetHTML

SpecRead == Init /\ [][NextRead]_vars

\* ------------------------------------- SnapshotHistory on its own (SpecHist)
\* a new SnapshotHistory() driven by push, undo and redo; trace.clean holds
\* while the calls so far are pushes followed by undos only
HistSnapshots == {[md |-> t, mode |-> MARKDOWN] : t \in TextInputs}

Unclean == [pushed |-> <<>>, undos |-> 0, clean |-> FALSE]

CurHist == [undoStack |-> undoStack, redoStack |-> redoStack]

InitHist ==
  /\ mode = MARKDOWN
  /\ canonicalMd = <<"">>
  /\ wwDirty = FALSE
  /\ wwSerializeTimer = FALSE
  /\ timeouts = 0
  /\ pendingWwRanges = <<>>
  /\ wwBaselineDoc = Null
  /\ wwDoc = <<>>
  /\ mdText = <<"">>
  /\ undoStack = <<>>
  /\ redoStack = <<>>
  /\ steps = 0
  /\ batch = NoBatch
  /\ trace = NoTrace
  /\ last = [op |-> "new", arg |-> Null, retSnap |-> Null,
             before |-> [undoStack |-> <<>>, redoStack |-> <<>>], prev |-> "new"]

HistFrame ==
  UNCHANGED <<mode, canonicalMd, wwDirty, wwSerializeTimer, timeouts, pendingWwRanges,
              wwBaselineDoc, wwDoc, mdText, steps, batch>>

HPush ==
  \E snapshot \in HistSnapshots :
    LET h == HistPush(CurHist, snapshot)
    IN  /\ Len(undoStack) + Len(redoStack) < MaxPush
        /\ undoStack' = h.undoStack
        /\ redoStack' = h.redoStack
        /\ trace' = IF trace.clean /\ trace.undos = 0
                    THEN [trace EXCEPT !.pushed = Append(@, snapshot)]
                    ELSE Unclean
        /\ last' = [op |-> "push", arg |-> Some(snapshot), retSnap |-> Null,
                    before |-> CurHist, prev |-> last.op]
        /\ HistFrame

HUndo ==
  LET r == HistUndo(CurHist)
  IN  /\ trace.undos <= MaxPush
      /\ undoStack' = r.h.undoStack
      /\ redoStack' = r.h.redoStack
      /\ trace' = IF trace.clean THEN [trace EXCEPT !.undos = @ + 1] ELSE Unclean
      /\ last' = [op |-> "undo", arg |-> Null, retSnap |-> r.ret,
                  before |-> CurHist, prev |-> last.op]
      /\ HistFrame

HRedo ==
  LET r == HistRedo(CurHist)
  IN  /\ undoStack' = r.h.undoStack
      /\ redoStack' = r.h.redoStack
      /\ trace' = Unclean
      /\ last' = [op |-> "redo", arg |-> Null, retSnap |-> r.ret,
                  before |-> CurHist, prev |-> last.op]
      /\ HistFrame

NextHist ==
  \/ HPush
  \/ HUndo
  \/ HRedo

SpecHist == InitHist /\ [][NextHist]_vars

\* ------------------------------------------------------------------ claims
\* a flush ran in the last operation and its result is the canonical text
\* the operation left (timer expiry, getMarkdown, changeMode to text)
FlushCommitted ==
  /\ last.op \in {"timer", "getMarkdown", "changeMode"}
  /\ last.flushPath \in {"noop", "patch", "full"}

\* some pending range is unresolvable: its oldRange against
\* parse(canonicalMd) or its newRange against the structured tree
SomeRangeUnresolvable ==
  \E k \in 1..Len(pendingWwRanges) :
    LET r == pendingWwRanges[k]
        root == createToastMark(canonicalMd)
    IN  \/ r.oldRange.startIndex < 0 \/ r.oldRange.startIndex >= Len(root)
        \/ r.oldRange.endIndex < 0 \/ r.oldRange.endIndex >= Len(root)
        \/ (Len(wwDoc) > 0 /\ (r.newRange.startIndex < 0 \/ r.newRange.endIndex >= Len(wwDoc)))

\* a flush runs in the step to the next state, on pending structured edits
FlushStep ==
  /\ wwDirty
  /\ pendingWwRanges # <<>>
  /\ last'.op \in {"timer", "getMarkdown", "changeMode"}

RangedEditsPending ==
  /\ mode = WYSIWYG
  /\ wwDirty
  /\ batch.edits >= 1
  /\ batch.inSync
  /\ batch.ranged

\* C5 (flush ordering only): getMarkdown in structured mode returns the
\* canonical text as it is after the forced flush, with wwDirty false and no
\* timer pending; in text mode it returns canonicalMd and changes no state
C5_FlushBeforeRead ==
  [][last'.op = "getMarkdown"
       => /\ last'.retMd = Some(canonicalMd')
          /\ ~wwSerializeTimer'
          /\ (mode = WYSIWYG
                => /\ ~wwDirty'
                   /\ (wwDirty => last'.flushPath # "none")
                   /\ (last'.pushed > 0 => last'.retMd # Some(canonicalMd)))
          /\ (mode = MARKDOWN
                => /\ last'.retMd = Some(canonicalMd)
                   /\ UNCHANGED progVars)]_vars

C6_FlushBeforeWrite ==
  [][(last'.op = "changeMode" /\ mode = WYSIWYG /\ wwDirty)
       => /\ mode' = MARKDOWN
          /\ last'.flushPath # "none"
          /\ mdText' = canonicalMd'
          /\ (last'.pushed > 0 => mdText' # canonicalMd)
          /\ ~wwDirty'
          /\ pendingWwRanges' = <<>>
          /\ ~wwSerializeTimer']_vars

C7_UndoRedoApply ==
  [][(last'.op \in {"undo", "redo"})
       => /\ (wwDirty => last'.flushPath # "none")
          /\ (last'.pushed > 0 /\ last'.op = "undo"
                => last'.retSnap = Some(undoStack[Len(undoStack)]))
          /\ (last'.retSnap # Null
                => /\ canonicalMd' = last'.retSnap[1].md
                   /\ undoStack'[Len(undoStack')] = last'.retSnap[1]
                   /\ ~wwDirty'
                   /\ pendingWwRanges' = <<>>
                   /\ ~wwSerializeTimer'
                   /\ Len(undoStack') = last'.mid.undo
                        + (IF last'.op = "undo" THEN -1 ELSE 1)
                   /\ Len(redoStack') = last'.mid.redo
                        + (IF last'.op = "undo" THEN 1 ELSE -1))]_vars

\* C7 witness: an undo requested with structured edits pending flushed them
\* (pushing a snapshot) and restored the text from before the edits
C7_Witness ==
  /\ last.op = "undo"
  /\ last.pushed = 1
  /\ last.retSnap # Null
  /\ canonicalMd = last.retSnap[1].md
  /\ Len(redoStack) = 1

\* the reverse of a sequence
Reverse(seq) == [k \in 1..Len(seq) |-> seq[Len(seq) + 1 - k]]

\* C8: after N >= 1 pushes onto an empty history, the k-th undo returns the
\* (N-k)-th pushed snapshot for k <= N-1; after N-1 undos canUndo() is false,
\* and every further undo returns null and leaves both stacks as they were
C8_UndoStackLaw ==
  (trace.clean /\ Len(trace.pushed) >= 1 /\ trace.undos >= 1 /\ last.op = "undo")
    => LET N == Len(trace.pushed)
           k == trace.undos
           done == Min2(k, N - 1)
       IN  /\ last.retSnap = IF k <= N - 1 THEN Some(trace.pushed[N - k]) ELSE Null
           /\ undoStack = SubSeq(trace.pushed, 1, N - done)
           /\ redoStack = Reverse(SubSeq(trace.pushed, N - done + 1, N))
           /\ (k >= N - 1 => ~HistCanUndo(CurHist) /\ Len(undoStack) = 1)

\* C8 witness: three pushes then three undos; the third undo returned null
C8_Witness ==
  /\ trace.clean
  /\ Len(trace.pushed) = 3
  /\ trace.undos = 3
  /\ last.op = "undo"
  /\ last.retSnap = Null
  /\ Len(redoStack) = 2

\* C9: push appends the snapshot to undoStack and empties redoStack, whatever
\* came before, and a redo made right after a push returns null
C9_PushClearsRedo ==
  [][/\ (last'.op = "push"
           => /\ undoStack' = Append(undoStack, last'.arg[1])
              /\ redoStack' = <<>>)
     /\ (last.op = "push" /\ last'.op = "redo"
           => /\ last'.retSnap = Null
              /\ undoStack' = undoStack
              /\ redoStack' = redoStack)]_vars

\* C9 witness: a push made after an undo left the redo stack empty
C9_Witness ==
  /\ last.op = "push"
  /\ ~trace.clean
  /\ redoStack = <<>>
  /\ Len(undoStack) = 2

C10_TextChangeDiscardsRedo ==
  [][(last'.op = "redo" /\ last.op = "mdChange")
       => (last'.retSnap = Null /\ redoStack' = <<>> /\ canonicalMd' = canonicalMd)]_vars

\* C11: redo on an empty redoStack returns null and changes neither stack;
\* otherwise it moves the tail of redoStack to the tail of undoStack and
\* returns it; a redo right after an undo that returned a snapshot restores
\* both stacks as they were before the undo and returns the former top
C11_RedoLaw ==
  [][last'.op = "redo"
       => /\ (redoStack = <<>>
                => /\ last'.retSnap = Null
                   /\ undoStack' = undoStack
                   /\ redoStack' = redoStack)
          /\ (redoStack # <<>>
                => /\ last'.retSnap = Some(redoStack[Len(redoStack)])
                   /\ redoStack' = SubSeq(redoStack, 1, Len(redoStack) - 1)
                   /\ undoStack' = Append(undoStack, redoStack[Len(redoStack)]))
          /\ (last.op = "undo" /\ last.retSnap # Null
                => /\ undoStack' = last.before.undoStack
                   /\ redoStack' = last.before.redoStack
                   /\ last'.retSnap =
                        Some(last.before.undoStack[Len(last.before.undoStack)]))]_vars

\* C11 witness: a redo made right after an undo gave back a snapshot while
\* older undone snapshots stay on the redo stack
C11_Witness ==
  /\ last.op = "redo"
  /\ last.prev = "undo"
  /\ last.retSnap # Null
  /\ undoStack[Len(undoStack)] = last.retSnap[1]
  /\ Len(redoStack) = 1
  /\ Len(undoStack) = 2

\* C12: right after construction undoStack holds exactly one snapshot, of the
\* initial content, and redoStack is empty; in every state reachable by text
\* edits, structured edits, flushes, mode changes, setMarkdown, reset, undo
\* and redo, undoStack has at least one entry
C12_UndoFloor ==
  /\ Len(undoStack) >= 1
  /\ (steps = 0
        => /\ undoStack = <<[md |-> canonicalMd, mode |-> mode]>>
           /\ redoStack = <<>>)

\* C12 witness: after an undo moved the history, a further undo met the
\* floor entry and returned null
C12_Witness ==
  /\ last.op = "undo"
  /\ last.retSnap = Null
  /\ Len(undoStack) = 1
  /\ Len(redoStack) >= 1

\* C13: undo and redo only move snapshots between the two stacks: undoStack
\* followed by redoStack reversed is the same sequence before and after an
\* undo or redo (after the one snapshot its forced flush may have pushed,
\* which empties redoStack), so no stored snapshot is modified or lost by
\* undo, redo or the application of the returned snapshot
C13_UndoRedoConserve ==
  [][last'.op \in {"undo", "redo"}
       => /\ (last'.pushed = 0
                => undoStack' \o Reverse(redoStack') = undoStack \o Reverse(redoStack))
          /\ (last'.pushed > 0
                => /\ Len(undoStack') + Len(redoStack') = Len(undoStack) + 1
                   /\ SubSeq(undoStack' \o Reverse(redoStack'), 1, Len(undoStack))
                        = undoStack)]_vars

\* C13 witness: two undos in a row moved two snapshots onto the redo stack
C13_Witness ==
  /\ last.op = "undo"
  /\ last.pushed = 0
  /\ last.retSnap # Null
  /\ Len(redoStack) = 2
  /\ Len(undoStack) = 1

\* C14: in text mode, after setMarkdown(M), changeMode to structured and
\* changeMode back to text with no edit in between leave canonicalMd = M and
\* push no snapshot, and getMarkdown() then returns M
C14_RoundTripStable ==
  /\ (trace.stage \in {2, 3, 4}
        => /\ canonicalMd = trace.md
           /\ undoStack = trace.undoStack
           /\ redoStack = trace.redoStack)
  /\ (trace.stage = 3 => mode = MARKDOWN /\ mdText = trace.md)
  /\ (trace.stage = 4 => last.retMd = Some(trace.md))

\* C14 witness: the round trip was made with a text that the serializer
\* would write differently (a trailing newline) and getMarkdown returned it
C14_Witness ==
  /\ trace.stage = 4
  /\ last.op = "getMarkdown"
  /\ trace.md = <<"p", "">>
  /\ trace.md # toMarkdownText(toWysiwygModel(createToastMark(trace.md)))
  /\ last.retMd = Some(trace.md)

\* C15: changeMode to structured mode replaces the structured tree with the
\* tree derived from canonicalMd and ends with wwDirty false, no pending
\* range, no timer and the baseline equal to the tree; nothing is pushed and
\* canonicalMd is unchanged
C15_ChangeModeToStructured ==
  [][(last'.op = "changeMode" /\ mode = MARKDOWN)
       => /\ mode' = WYSIWYG
          /\ wwDoc' = toWysiwygModel(createToastMark(canonicalMd))
          /\ ~wwDirty'
          /\ pendingWwRanges' = <<>>
          /\ ~wwSerializeTimer'
          /\ wwBaselineDoc' = Some(wwDoc')
          /\ canonicalMd' = canonicalMd
          /\ undoStack' = undoStack
          /\ redoStack' = redoStack
          /\ last'.pushed = 0]_vars

\* C15 witness: a switch to structured mode, after text edits, derived a
\* tree of three blocks and made it the baseline
C15_Witness ==
  /\ last.op = "changeMode"
  /\ mode = WYSIWYG
  /\ Len(undoStack) >= 2
  /\ Len(wwDoc) = 3
  /\ wwBaselineDoc = Some(wwDoc)
  /\ ~wwDirty

ForcedFlushOps == {"getMarkdown", "changeMode", "undo", "redo"}

ProgFields(s) ==
  <<s.mode, s.canonicalMd, s.wwDirty, s.wwSerializeTimer, s.timeouts,
    s.pendingWwRanges, s.wwBaselineDoc, s.wwDoc, s.mdText, s.undoStack,
    s.redoStack>>

\* C19: a forced flush with no pending ranges leaves canonicalMd, undoStack,
\* redoStack, mode and the structured tree as they were, whether it is
\* called alone or by getMarkdown in structured mode; a second forced flush
\* changes nothing the first left (the operator is applied once and twice
\* to the state every getMarkdown starts from), and a getMarkdown that
\* follows a flush without an edit between changes no field
C19_ForcedFlushIdempotent ==
  [][last'.op = "getMarkdown"
       => LET one == flushPendingWwSerialize(Cur)
          IN  /\ ProgFields(flushPendingWwSerialize(one)) = ProgFields(one)
              /\ (pendingWwRanges = <<>>
                    => /\ one.canonicalMd = canonicalMd
                       /\ one.undoStack = undoStack
                       /\ one.redoStack = redoStack
                       /\ one.mode = mode
                       /\ one.wwDoc = wwDoc)
              /\ (mode = WYSIWYG /\ pendingWwRanges = <<>>
                    => /\ canonicalMd' = canonicalMd
                       /\ undoStack' = undoStack
                       /\ redoStack' = redoStack
                       /\ mode' = mode
                       /\ wwDoc' = wwDoc
                       /\ last'.pushed = 0)
              /\ (mode = WYSIWYG /\ last.op \in ForcedFlushOps \cup {"timer"}
                    => /\ progVars' = progVars
                       /\ last'.flushPath = "none")]_vars

\* C19 witness: getMarkdown forced a flush in structured mode, no edit having
\* arrived since the last operation, and found nothing to do
C19_Witness ==
  /\ last.op = "getMarkdown"
  /\ mode = WYSIWYG
  /\ last.flushPath = "none"
  /\ last.cleared = 0
  /\ last.batch.edits = 0
  /\ pendingWwRanges = <<>>
  /\ ~wwDirty
  /\ Len(undoStack) >= 2

\* the operations whose flush is all they do to canonicalMd and the stacks
FlushOnlyOps == {"timer", "getMarkdown", "changeMode"}

C22_TextChangeSnapshots ==
  [][last'.op = "mdChange"
       => /\ canonicalMd' = mdText'
          /\ mdText' # mdText
          /\ undoStack' = Append(undoStack, [md |-> mdText', mode |-> mode'])
          /\ redoStack' = <<>>
          /\ ~wwDirty'
          /\ last'.pushed = 1
          /\ last'.started = 0
          /\ last'.cleared = 0
          /\ timeouts' = timeouts
          /\ last'.flushPath = "none"]_vars

\* C22 witness: a text edit pushed the snapshot of its new text on a stack
\* of two and left redoStack empty
C22_Witness ==
  /\ last.op = "mdChange"
  /\ last.pushed = 1
  /\ mode = MARKDOWN
  /\ Len(undoStack) = 3
  /\ undoStack[3].md = canonicalMd
  /\ undoStack[3].md # undoStack[2].md
  /\ redoStack = <<>>
  /\ ~wwDirty

\* the application's calls that pass programmatic = true
FlaggedOps == {"setMarkdownProgrammatic", "setHTMLProgrammatic"}

\* C23: a setMarkdown or setHTML called with programmatic = true leaves
\* undoStack and redoStack as they were, in either mode
C23_FlaggedCallPushesNothing ==
  [][last'.op \in FlaggedOps
       => /\ undoStack' = undoStack
          /\ redoStack' = redoStack]_vars

\* C23, the part that holds: setHTML with programmatic = true in structured
\* mode replaces the tree and pushes nothing
C23_FlaggedTreePushesNothing ==
  [][(last'.op = "setHTMLProgrammatic" /\ mode = WYSIWYG)
       => /\ undoStack' = undoStack
          /\ redoStack' = redoStack
          /\ last'.pushed = 0]_vars

\* C24: after a setMarkdown or setHTML called with programmatic = true, in
\* either mode, canonicalMd is the markdown of the new content, and a
\* getMarkdown that comes next returns it
C24_FlaggedCallUpdatesCanonical ==
  [][/\ (last'.op \in FlaggedOps => Some(canonicalMd') = trace'.set)
     /\ (last'.op = "getMarkdown" /\ last.op \in FlaggedOps
           => last'.retMd = trace.set)]_vars

\* C24, the part that holds: the replacements that go through the text
\* view (setMarkdown in either mode, setHTML in text mode) update
\* canonicalMd, and the next getMarkdown returns the new text
C24_FlaggedTextUpdatesCanonical ==
  [][/\ (last'.op = "setMarkdownProgrammatic" \/
         (last'.op = "setHTMLProgrammatic" /\ mode = MARKDOWN)
           => Some(canonicalMd') = trace'.set)
     /\ (last'.op = "getMarkdown" /\ last.op = "setMarkdownProgrammatic"
          /\ pendingWwRanges = <<>>
           => last'.retMd = trace.set)]_vars

\* the text the serializer gives for the tree parsed from md
SerializedForm(md) == toMarkdownText(toWysiwygModel(createToastMark(md)))

C26_RangelessEditSchedules ==
  [][(last'.op = "wwUserEdit" /\ pendingWwRanges' = pendingWwRanges)
       => wwDirty' /\ last'.started = 1 /\ timeouts' > 0
          /\ last'.cleared = (IF timeouts > 0 THEN 1 ELSE 0)]_vars

\* ------------------------------------------------- the edit range tracker
\* the tracker alone: record calls (addWwEditRange) and clear, on a
\* coordinator in structured mode whose text has MaxIndex + 1 paragraphs
MaxIndex == 5
MaxRecords == 3

RECURSIVE Paragraphs(_)
Paragraphs(n) == IF n = 0 THEN <<>> ELSE Append(Paragraphs(n - 1), <<"p">>)

\* single blocks (every other block and the last one), and the runs of
\* three blocks [0,2], [3,5], ... with the two indexes in either order
BlockRanges ==
  {r \in [startIndex : 0..MaxIndex, endIndex : 0..MaxIndex] :
     \/ r.endIndex = r.startIndex /\ (r.startIndex % 2 = 0 \/ r.startIndex = MaxIndex)
     \/ r.startIndex % 3 = 0 /\ r.endIndex = r.startIndex + 2
     \/ r.endIndex % 3 = 0 /\ r.startIndex = r.endIndex + 2}

\* the ranges record is called with
TrackerInputs == {[oldRange |-> o, newRange |-> n] : o \in BlockRanges, n \in BlockRanges}

InitTracker ==
  /\ mode = WYSIWYG
  /\ canonicalMd = toMarkdownText(Paragraphs(MaxIndex + 1))
  /\ wwDirty = FALSE
  /\ wwSerializeTimer = FALSE
  /\ timeouts = 0
  /\ pendingWwRanges = <<>>
  /\ wwBaselineDoc = Some(Paragraphs(MaxIndex + 1))
  /\ wwDoc = Paragraphs(MaxIndex + 1)
  /\ mdText = toMarkdownText(Paragraphs(MaxIndex + 1))
  /\ undoStack = <<[md |-> toMarkdownText(Paragraphs(MaxIndex + 1)), mode |-> WYSIWYG]>>
  /\ redoStack = <<>>
  /\ steps = 0
  /\ batch = NoBatch
  /\ trace = NoRound
  /\ last = [op |-> "new", arg |-> Null]

TrackerFrame ==
  UNCHANGED <<mode, canonicalMd, wwDirty, wwSerializeTimer, timeouts, wwBaselineDoc,
              wwDoc, mdText, undoStack, redoStack, batch, trace>>

\* this.addWwEditRange(range)
TRecord ==
  \E range \in TrackerInputs :
    /\ steps < MaxRecords
    /\ pendingWwRanges' = addWwEditRange(pendingWwRanges, range)
    /\ steps' = steps + 1
    /\ last' = [op |-> "record", arg |-> Some(range)]
    /\ TrackerFrame

\* this.clearPendingWwEdits()
TClear ==
  /\ pendingWwRanges # <<>>
  /\ pendingWwRanges' = clearPendingWwEdits(Cur).pendingWwRanges
  /\ steps' = 0
  /\ last' = [op |-> "clear", arg |-> Null]
  /\ TrackerFrame

NextTracker ==
  \/ TRecord
  \/ TClear

SpecTracker == InitTracker /\ [][NextTracker]_vars

\* the line ranges the pending ranges map to against the canonical text
PatchLineRanges ==
  [k \in 1..Len(pendingWwRanges) |->
     getBlockLineRangeForIndexRange(pendingWwRanges[k].oldRange,
                                    createToastMark(canonicalMd))]

LinesDisjoint(a, b) == a.endLine < b.startLine \/ b.endLine < a.startLine

\* C28: no two pending ranges overlap or touch, neither in their oldRanges
\* nor in their newRanges, and the line ranges of the patches computed from
\* them are pairwise disjoint
C28_PendingRangesDisjoint ==
  \A i, j \in 1..Len(pendingWwRanges) :
    i < j =>
      /\ ~rangesOverlapOrTouch(pendingWwRanges[i].oldRange, pendingWwRanges[j].oldRange)
      /\ ~rangesOverlapOrTouch(pendingWwRanges[i].newRange, pendingWwRanges[j].newRange)
      /\ (PatchLineRanges[i] # Null /\ PatchLineRanges[j] # Null
           => LinesDisjoint(PatchLineRanges[i][1], PatchLineRanges[j][1]))

\* the range between the smaller and the larger index
Ordered(range) ==
  [startIndex |-> IF range.startIndex <= range.endIndex THEN range.startIndex
                  ELSE range.endIndex,
   endIndex |-> IF range.startIndex <= range.endIndex THEN range.endIndex
                ELSE range.startIndex]

Touch(a, b) == a.startIndex <= b.endIndex + 1 /\ b.startIndex <= a.endIndex + 1

\* min of starts and max of ends over a non-empty set of block ranges
Hull(ranges) ==
  [startIndex |-> (CHOOSE r \in ranges :
                     \A q \in ranges : r.startIndex <= q.startIndex).startIndex,
   endIndex |-> (CHOOSE r \in ranges :
                   \A q \in ranges : r.endIndex >= q.endIndex).endIndex]

\* the incoming range after absorbing the ranges of `before` at the
\* positions of S below k
Running(before, range, S, k) ==
  [oldRange |-> Hull({Ordered(range.oldRange)}
                     \cup {before[i].oldRange : i \in {i \in S : i < k}}),
   newRange |-> Hull({Ordered(range.newRange)}
                     \cup {before[i].newRange : i \in {i \in S : i < k}})]

\* the ranges of seq at the positions up to k that are not in S, in order
RECURSIVE KeptOf(_, _, _)
KeptOf(seq, S, k) ==
  IF k = 0 THEN <<>>
  ELSE IF k \in S THEN KeptOf(seq, S, k - 1)
  ELSE Append(KeptOf(seq, S, k - 1), seq[k])

\* C27: record normalizes the incoming range; the pending ranges whose
\* oldRange or newRange overlaps or touches the running incoming range are
\* replaced by one range with the min of starts and the max of ends, taken
\* independently for oldRange and newRange; the others stay, in order; old
\* ranges [0,2] and [3,5] end as the one range [0,5]
C27_MergeRule ==
  [][last'.op = "record" =>
       /\ \E S \in SUBSET (1..Len(pendingWwRanges)) :
            /\ Len(pendingWwRanges') = Len(pendingWwRanges) - Cardinality(S) + 1
            /\ pendingWwRanges' =
                 Append(KeptOf(pendingWwRanges, S, Len(pendingWwRanges)),
                        Running(pendingWwRanges, last'.arg[1], S,
                                Len(pendingWwRanges) + 1))
            /\ \A k \in 1..Len(pendingWwRanges) :
                 LET running == Running(pendingWwRanges, last'.arg[1], S, k)
                 IN  k \in S <=>
                       \/ Touch(pendingWwRanges[k].oldRange, running.oldRange)
                       \/ Touch(pendingWwRanges[k].newRange, running.newRange)
       /\ ((Len(pendingWwRanges) = 1
            /\ pendingWwRanges[1].oldRange = [startIndex |-> 0, endIndex |-> 2]
            /\ Ordered(last'.arg[1].oldRange) = [startIndex |-> 3, endIndex |-> 5])
           => (Len(pendingWwRanges') = 1
               /\ pendingWwRanges'[1].oldRange = [startIndex |-> 0, endIndex |-> 5]))]_vars

\* a record of old range [5,3] (new range [5,5]) met the pending old range
\* [0,2] (new range [0,0]): one range is pending, old [0,5] and new [0,5]
C27_Witness ==
  /\ last.op = "record"
  /\ steps = 2
  /\ last.arg = Some([oldRange |-> [startIndex |-> 5, endIndex |-> 3],
                      newRange |-> [startIndex |-> 5, endIndex |-> 5]])
  /\ pendingWwRanges = <<[oldRange |-> [startIndex |-> 0, endIndex |-> 5],
                          newRange |-> [startIndex |-> 0, endIndex |-> 5]]>>

\* ------------------------------------------------------ selection clamping
\* mutant: the position after the last character is not allowed
clampMdPosNoTrailing(md, pos) ==
  LET lines == SplitNewline(md)
      lineIndex == Min2(Max2(pos[1], 1), Max2(Len(lines), 1))
      lineText == IF lineIndex \in 1..Len(lines) THEN lines[lineIndex] ELSE ""
      maxCh == Max2(Len(lineText), 1)
      ch == Min2(Max2(pos[2], 1), maxCh)
  IN  <<lineIndex, ch>>

\* pos and the result are [line, ch], both 1-based
clampMdPos(md, pos) ==
  LET lines == SplitNewline(md)
      lineIndex == Min2(Max2(pos[1], 1), Max2(Len(lines), 1))
      lineText == IF lineIndex \in 1..Len(lines) THEN lines[lineIndex] ELSE ""
      maxCh == Max2(Len(lineText) + 1, 1)
      ch == Min2(Max2(pos[2], 1), maxCh)
  IN  <<lineIndex, ch>>

MaxPos == 5

\* the texts positions are clamped against: the empty text, one line, lines
\* of different lengths with an empty line between
ClampTexts == {<<"">>, <<"p">>, <<"abc", "", "a">>, <<"p", "", "p", "", "p">>}

Positions == {<<line, ch>> : line \in -MaxPos..MaxPos, ch \in -MaxPos..MaxPos}

InitClamp ==
  /\ mode = MARKDOWN
  /\ canonicalMd \in ClampTexts
  /\ wwDirty = FALSE
  /\ wwSerializeTimer = FALSE
  /\ timeouts = 0
  /\ pendingWwRanges = <<>>
  /\ wwBaselineDoc = Null
  /\ wwDoc = <<>>
  /\ mdText = canonicalMd
  /\ undoStack = <<[md |-> canonicalMd, mode |-> MARKDOWN]>>
  /\ redoStack = <<>>
  /\ steps = 0
  /\ batch = NoBatch
  /\ trace = NoRound
  /\ last = [op |-> "new", arg |-> <<1, 1>>, ret |-> <<1, 1>>]

ClampFrame ==
  UNCHANGED <<mode, canonicalMd, wwDirty, wwSerializeTimer, timeouts, pendingWwRanges,
              wwBaselineDoc, wwDoc, mdText, undoStack, redoStack, steps, batch, trace>>

\* this.clampMdPos(md, pos) on a position handed in
Clamp ==
  \E pos \in Positions :
    /\ last' = [op |-> "clamp", arg |-> pos, ret |-> clampMdPos(canonicalMd, pos)]
    /\ ClampFrame

\* this.clampMdPos(md, pos) on a position it returned before
ClampAgain ==
  /\ last.op # "new"
  /\ last' = [op |-> "clampAgain", arg |-> last.ret,
              ret |-> clampMdPos(canonicalMd, last.ret)]
  /\ ClampFrame

NextClamp ==
  \/ Clamp
  \/ ClampAgain

SpecClamp == InitClamp /\ [][NextClamp]_vars

\* C29: clampMdPos returns a line in 1..lineCount and a column in
\* 1..length of that line + 1; a position inside these bounds is returned
\* unchanged, also when it is a position clampMdPos returned; a line beyond
\* the last gives lineCount, a column beyond the line end gives length + 1,
\* zero and negative inputs give 1
C29_ClampedInsideText ==
  last.op \in {"clamp", "clampAgain"} =>
    LET lineCount == Len(canonicalMd)
        line == last.ret[1]
        column == last.ret[2]
    IN  /\ line \in 1..lineCount
        /\ column \in 1..(Len(canonicalMd[line]) + 1)
        /\ (/\ last.arg[1] \in 1..lineCount
            /\ last.arg[2] \in 1..(Len(canonicalMd[last.arg[1]]) + 1))
           => last.ret = last.arg
        /\ last.op = "clampAgain" => last.ret = last.arg
        /\ last.arg[1] > lineCount => line = lineCount
        /\ last.arg[2] > Len(canonicalMd[line]) + 1
             => column = Len(canonicalMd[line]) + 1
        /\ last.arg[1] <= 0 => line = 1
        /\ last.arg[2] <= 0 => column = 1
        /\ (last.arg[1] <= 0 /\ last.arg[2] <= 0) => last.ret = <<1, 1>>

\* the position (5, 5) was clamped against the text "abc", "", "a" to the
\* position after the last character of the last line
C29_Witness ==
  /\ last.op = "clamp"
  /\ canonicalMd = <<"abc", "", "a">>
  /\ last.arg = <<5, 5>>
  /\ last.ret = <<3, 2>>

\* one structured edit is pending, flushed in the step to the next state: it
\* was made in sync, replaced the one block at index i by one block, and
\* the tree differs from the parsed canonical text in that block only
SingleBlockEditFlushed(i) ==
  /\ FlushStep
  /\ mode = WYSIWYG
  /\ batch = [edits |-> 1, inSync |-> TRUE, ranged |-> TRUE]
  /\ pendingWwRanges = <<[oldRange |-> [startIndex |-> i, endIndex |-> i],
                          newRange |-> [startIndex |-> i, endIndex |-> i]]>>
  /\ Len(wwDoc) = Len(createToastMark(canonicalMd))
  /\ i + 1 <= Len(wwDoc)
  /\ \A k \in 1..Len(wwDoc) :
       (wwDoc[k] # createToastMark(canonicalMd)[k].lines) <=> (k = i + 1)

MaxLines == 4
MaxPatches == 2

LineNames == <<"a", "b", "c", "d", "e", "f">>

\* the texts patched: one to MaxLines distinct lines
PatchedTexts == {SubSeq(LineNames, 1, n) : n \in 1..MaxLines}

\* the patch texts: the empty text, one line, two lines
PatchTexts == {<<"">>, <<"x">>, <<"y", "z">>}

\* the patches whose range lies in a text of n lines
PatchesIn(n) ==
  {[range |-> [startLine |-> s, endLine |-> e], text |-> x] :
     s \in 1..n, e \in 1..n, x \in PatchTexts}

RangesApart(p, q) ==
  p.range.endLine < q.range.startLine \/ q.range.endLine < p.range.startLine

\* the lists of up to k patches of a text of n lines, in any order, the
\* ranges in order (startLine <= endLine) and pairwise disjoint
RECURSIVE PatchListsUpTo(_, _)
PatchListsUpTo(n, k) ==
  IF k = 0 THEN {<<>>}
  ELSE LET shorter == PatchListsUpTo(n, k - 1)
       IN  shorter \cup
           {Append(patches, p) :
              <<patches, p>> \in
                {<<l, q>> \in shorter \X PatchesIn(n) :
                   /\ Len(l) = k - 1
                   /\ q.range.startLine <= q.range.endLine
                   /\ \A i \in 1..Len(l) : RangesApart(l[i], q)}}

PatchLists(n) == PatchListsUpTo(n, MaxPatches)

InitPatch ==
  /\ mode = WYSIWYG
  /\ canonicalMd \in PatchedTexts
  /\ wwDirty = FALSE
  /\ wwSerializeTimer = FALSE
  /\ timeouts = 0
  /\ pendingWwRanges = <<>>
  /\ wwBaselineDoc = Null
  /\ wwDoc = <<>>
  /\ mdText = canonicalMd
  /\ undoStack = <<[md |-> canonicalMd, mode |-> WYSIWYG]>>
  /\ redoStack = <<>>
  /\ steps = 0
  /\ batch = NoBatch
  /\ trace = NoRound
  /\ last = [op |-> "new", arg |-> <<>>, ret |-> canonicalMd]

PatchFrame ==
  UNCHANGED <<mode, canonicalMd, wwDirty, wwSerializeTimer, timeouts, pendingWwRanges,
              wwBaselineDoc, wwDoc, mdText, undoStack, redoStack, steps, batch, trace>>

\* this.applyMdPatches(md, patches), once on the text given
ApplyPatches ==
  /\ last.op = "new"
  /\ \E patches \in PatchLists(Len(canonicalMd)) :
       last' = [op |-> "applyMdPatches", arg |-> patches,
                ret |-> applyMdPatches(canonicalMd, patches)]
  /\ PatchFrame

\* this.applyMdPatches(md, patches) with the list of the last call reversed
ApplyReversed ==
  /\ last.op = "applyMdPatches"
  /\ Len(last.arg) >= 2
  /\ last' = [op |-> "applyReversed", arg |-> Reverse(last.arg),
              ret |-> applyMdPatches(canonicalMd, Reverse(last.arg))]
  /\ PatchFrame

NextPatch ==
  \/ ApplyPatches
  \/ ApplyReversed

SpecPatch == InitPatch /\ [][NextPatch]_vars

\* the lines of the text from line l on, every patched range replaced by
\* the lines of its patch
RECURSIVE ReplacedFrom(_, _, _)
ReplacedFrom(lines, patches, l) ==
  IF l > Len(lines) THEN <<>>
  ELSE IF \E p \in patches : p.range.startLine = l
       THEN LET p == CHOOSE q \in patches : q.range.startLine = l
            IN  (IF p.text = <<"">> THEN <<>> ELSE p.text)
                  \o ReplacedFrom(lines, patches, p.range.endLine + 1)
       ELSE <<lines[l]>> \o ReplacedFrom(lines, patches, l + 1)

\* lines as a text: no line gives the empty text
AsText(lines) == IF lines = <<>> THEN <<"">> ELSE lines

\* C31: for patches with pairwise disjoint ranges in the original line
\* numbering, applyMdPatches returns the text with every range replaced by
\* its patch text at once, whatever the order of the list; a patch with
\* empty text removes its lines
C31_PatchesApplySimultaneously ==
  last.op \in {"applyMdPatches", "applyReversed"} =>
    last.ret = AsText(ReplacedFrom(canonicalMd,
                                   {last.arg[k] : k \in 1..Len(last.arg)}, 1))

\* the patches were given in descending order: lines 4..4 of "a", "b", "c",
\* "d" replaced by two lines and lines 1..2 removed
C31_Witness ==
  /\ last.op = "applyReversed"
  /\ canonicalMd = <<"a", "b", "c", "d">>
  /\ last.arg = <<[range |-> [startLine |-> 4, endLine |-> 4], text |-> <<"y", "z">>],
                  [range |-> [startLine |-> 1, endLine |-> 2], text |-> <<"">>]>>
  /\ last.ret = <<"c", "y", "z">>

\* ------------------------------------------------------------ C32 (getHTML)
\* C32: getHTML() called in text mode leaves the mode, the canonical
\* markdown, the dirty flag, the pending ranges, the timer and both stacks
\* as they were: it pushes no snapshot and starts no timeout, although it
\* puts the tree of the current text on the structured surface
C32_GetHTMLIsARead ==
  [][(last'.op = "getHTML" /\ mode = MARKDOWN)
       => /\ UNCHANGED <<mode, canonicalMd, wwDirty, pendingWwRanges,
                         wwSerializeTimer, timeouts, undoStack, redoStack>>
          /\ last'.pushed = 0
          /\ last'.started = 0
          /\ wwDoc' = toWysiwygModel(createToastMark(mdText))]_vars

\* getHTML() in text mode has put a tree of two blocks on the surface after
\* a text change
C32_Witness ==
  /\ last.op = "getHTML"
  /\ mode = MARKDOWN
  /\ Len(wwDoc) = 2
  /\ wwDoc = toWysiwygModel(createToastMark(canonicalMd))
  /\ Len(undoStack) >= 2
  /\ ~wwDirty

\* --------------------------------------------- C33 (top of the undo stack)
\* C33: in every state reached by text changes, structured edits, the
\* timer, getMarkdown, changeMode, undo and redo, whenever no structured
\* edit is unserialized the snapshot on top of the undo stack holds the
\* canonical markdown
C33_TopSnapshotIsCanonical ==
  ~wwDirty => (/\ Len(undoStack) >= 1
               /\ undoStack[Len(undoStack)].md = canonicalMd)

\* a flush of structured edits has pushed the text it produced, after an
\* undo in structured mode
C33_Witness ==
  /\ last.op \in {"timer", "getMarkdown"}
  /\ last.pushed = 1
  /\ mode = WYSIWYG
  /\ ~wwDirty
  /\ Len(undoStack) >= 2
  /\ undoStack[Len(undoStack)].md = canonicalMd
  /\ undoStack[Len(undoStack) - 1].md # canonicalMd

MaxSnaps == 2

\* mutant: the selection is stored as the view reported it
getSelectionUnclamped(md, selection) ==
  [anchor |-> selection[1], head |-> selection[2],
   collapsed |-> selection[1][1] = selection[2][1] /\ selection[1][2] = selection[2][2]]

\* selection is [anchor, head] as the live view reports it, in markdown
\* coordinates (mdEditor.getSelection(), or getEditorToMdPos of the
\* structured surface's selection)
getSelectionForSnapshot(md, selection) ==
  LET clampedAnchor == clampMdPos(md, selection[1])
      clampedHead == clampMdPos(md, selection[2])
  IN  [anchor |-> clampedAnchor, head |-> clampedHead,
       collapsed |-> clampedAnchor[1] = clampedHead[1] /\ clampedAnchor[2] = clampedHead[2]]

\* createSnapshot(md) with the selection it reads: scrollTop and time are
\* left out
createSnapshotSelected(s, md, selection) ==
  [md |-> md, selection |-> getSelectionForSnapshot(md, selection), mode |-> s.mode]

\* the selections a view reports: collapsed ones, inside and outside the
\* text, and ranges whose ends lie on either side of the text's end
SelPositions == {<<line, ch>> : line \in {0, 2, MaxPos}, ch \in {0, 2, MaxPos}}

ViewSelections ==
  {<<pos, pos>> : pos \in SelPositions} \cup
  {<< <<MaxPos, MaxPos>>, <<MaxPos, 2>> >>, << <<2, MaxPos>>, <<0, 0>> >>,
   << <<1, 1>>, <<MaxPos, MaxPos>> >>}

\* the constructor's pushSnapshot(this.canonicalMd), the cursor at the start
InitSnap ==
  \E m \in Modes, initialValue \in ClampTexts :
    /\ mode = m
    /\ canonicalMd = initialValue
    /\ wwDirty = FALSE
    /\ wwSerializeTimer = FALSE
    /\ timeouts = 0
    /\ pendingWwRanges = <<>>
    /\ wwBaselineDoc = Null
    /\ wwDoc = <<>>
    /\ mdText = initialValue
    /\ undoStack = <<createSnapshotSelected([mode |-> m], initialValue,
                                            << <<1, 1>>, <<1, 1>> >>)>>
    /\ redoStack = <<>>
    /\ steps = 0
    /\ batch = NoBatch
    /\ trace = NoRound
    /\ last = [op |-> "new", arg |-> <<>>, ret |-> Null]

SnapFrame ==
  UNCHANGED <<mode, wwDirty, wwSerializeTimer, timeouts, pendingWwRanges,
              wwBaselineDoc, wwDoc, steps, batch, trace>>

\* this.pushSnapshot(md) after a change of the text to md, the live view
\* reporting the selection
SnapPush ==
  /\ Len(undoStack) + Len(redoStack) < MaxSnaps
  /\ \E md \in ClampTexts, selection \in ViewSelections :
       LET h == HistPush(CurHist, createSnapshotSelected(Cur, md, selection))
       IN  /\ canonicalMd' = md
           /\ mdText' = md
           /\ undoStack' = h.undoStack
           /\ redoStack' = h.redoStack
           /\ last' = [op |-> "push", arg |-> selection, ret |-> Null]
  /\ SnapFrame

\* installs the history and the text of the snapshot r hands back
SnapMoved(r, op) ==
  /\ undoStack' = r.h.undoStack
  /\ redoStack' = r.h.redoStack
  /\ canonicalMd' = IF r.ret # Null THEN r.ret[1].md ELSE canonicalMd
  /\ mdText' = canonicalMd'
  /\ last' = [op |-> op, arg |-> <<>>, ret |-> r.ret]
  /\ SnapFrame

\* snapshotHistory.undo() and the text of the snapshot applied
SnapUndo == SnapMoved(HistUndo(CurHist), "undo")

\* snapshotHistory.redo() and the text of the snapshot applied
SnapRedo == SnapMoved(HistRedo(CurHist), "redo")

NextSnap ==
  \/ SnapPush
  \/ SnapUndo
  \/ SnapRedo

SpecSnap == InitSnap /\ [][NextSnap]_vars

\* pos lies inside the text md: a line of md and a column up to one past the
\* line's end
InsideText(md, pos) ==
  /\ pos[1] \in 1..Len(md)
  /\ pos[2] \in 1..(Len(md[pos[1]]) + 1)

\* C35: every snapshot in the undo stack or the redo stack has its anchor
\* and its head inside the bounds of its own md, and is collapsed exactly
\* when anchor and head are the same position
C35_SnapshotSelectionsClamped ==
  \A stack \in {undoStack, redoStack} :
    \A k \in 1..Len(stack) :
      /\ InsideText(stack[k].md, stack[k].selection.anchor)
      /\ InsideText(stack[k].md, stack[k].selection.head)
      /\ stack[k].selection.collapsed
           <=> (stack[k].selection.anchor = stack[k].selection.head)

\* a snapshot of the text "abc", "", "a" taken with the selection from
\* (5, 5) to (5, 2) is stored collapsed at the end of the text, and has
\* been moved to the redo stack by an undo
C35_Witness ==
  /\ last.op = "undo"
  /\ Len(redoStack) = 1
  /\ redoStack[1].md = <<"abc", "", "a">>
  /\ redoStack[1].selection = [anchor |-> <<3, 2>>, head |-> <<3, 2>>, collapsed |-> TRUE]
  /\ undoStack[1].md = <<"">>
  /\ undoStack[1].selection = [anchor |-> <<1, 1>>, head |-> <<1, 1>>, collapsed |-> TRUE]

\* ------------------------------------------------- C36 (undo keeps the mode)
\* C36: undoBySnapshot and redoBySnapshot leave the current mode as it is,
\* also when the snapshot they apply was recorded in the other mode: its
\* md becomes the canonical markdown and the text view's content, and in
\* structured mode the tree is the tree of that md
C36_UndoRedoKeepMode ==
  [][last'.op \in {"undo", "redo"}
       => /\ mode' = mode
          /\ last'.retSnap # Null
               => /\ canonicalMd' = last'.retSnap[1].md
                  /\ mdText' = last'.retSnap[1].md
                  /\ mode = WYSIWYG
                       => wwDoc' = toWysiwygModel(createToastMark(last'.retSnap[1].md))]_vars

\* an undo in structured mode has applied a snapshot recorded in text mode
C36_Witness ==
  /\ last.op = "undo"
  /\ last.retSnap # Null
  /\ last.retSnap[1].mode = MARKDOWN
  /\ mode = WYSIWYG
  /\ canonicalMd = last.retSnap[1].md
  /\ redoStack # <<>>
  /\ redoStack[Len(redoStack)].mode = MARKDOWN

\* ------------------------------------------------------------- C37 (reset)
\* C37: reset(), in either mode and whatever was pending, ends with the
\* canonical markdown empty, the dirty flag clear, no pending range, no
\* timer pending and the baseline cleared; it pushes no snapshot, so both
\* stacks are as they were, and it leaves the mode alone
C37_ResetClearsAndPushesNothing ==
  [][last'.op = "reset"
       => /\ canonicalMd' = <<"">>
          /\ ~wwDirty'
          /\ pendingWwRanges' = <<>>
          /\ ~wwSerializeTimer'
          /\ timeouts' = 0
          /\ wwBaselineDoc' = Null
          /\ last'.pushed = 0
          /\ UNCHANGED <<undoStack, redoStack, mode>>]_vars

\* reset() in structured mode has cleared a pending timer and left a
\* history of two snapshots whose top holds a non-empty text
C37_Witness ==
  /\ last.op = "reset"
  /\ last.cleared = 1
  /\ mode = WYSIWYG
  /\ canonicalMd = <<"">>
  /\ Len(undoStack) >= 2
  /\ undoStack[Len(undoStack)].md # <<"">>

\* -------------------------------------------------- C38 (undo after reset)
\* C38: when the document has a non-empty content X with nothing pending
\* and reset() is called, an undoBySnapshot called next restores the
\* canonical markdown to X
C38_UndoAfterResetRestores ==
  [][(/\ last'.op = "reset"
      /\ canonicalMd # <<"">>
      /\ ~wwDirty
      /\ ~wwSerializeTimer
      /\ timeouts = 0
      /\ pendingWwRanges = <<>>)
       => undoBySnapshot(Cur').s.canonicalMd = canonicalMd]_vars

\* ------------------------------------------------- C39 (record's coverage)
\* the block indexes lying in some oldRange, and in some newRange, of ranges
OldCovered(ranges) ==
  UNION {Ordered(ranges[k].oldRange).startIndex..Ordered(ranges[k].oldRange).endIndex :
           k \in 1..Len(ranges)}

NewCovered(ranges) ==
  UNION {Ordered(ranges[k].newRange).startIndex..Ordered(ranges[k].newRange).endIndex :
           k \in 1..Len(ranges)}

\* C39: record loses no coverage: after a record call every block index
\* in the oldRange (newRange) of the range recorded, and every index that
\* lay in the oldRange (newRange) of a pending range before the call, lies
\* in the oldRange (newRange) of a pending range; so, until the tracker is
\* cleared, every index of every range recorded stays covered
C39_RecordKeepsCoverage ==
  [][last'.op = "record"
       => /\ OldCovered(pendingWwRanges) \cup OldCovered(<<last'.arg[1]>>)
               \subseteq OldCovered(pendingWwRanges')
          /\ NewCovered(pendingWwRanges) \cup NewCovered(<<last'.arg[1]>>)
               \subseteq NewCovered(pendingWwRanges')]_vars

\* three records have left two pending ranges, the second one merged from
\* two of the ranges recorded
C39_Witness ==
  /\ last.op = "record"
  /\ steps = 3
  /\ last.arg = Some([oldRange |-> [startIndex |-> 2, endIndex |-> 2],
                       newRange |-> [startIndex |-> 4, endIndex |-> 4]])
  /\ pendingWwRanges = <<[oldRange |-> [startIndex |-> 0, endIndex |-> 0],
                          newRange |-> [startIndex |-> 2, endIndex |-> 2]],
                         [oldRange |-> [startIndex |-> 2, endIndex |-> 2],
                          newRange |-> [startIndex |-> 0, endIndex |-> 4]]>>

====
